---------------------------- MODULE Spec2Model ----------------------------
(***************************************************************************)
(* A model of the CRON translator of src/src/main.rs: the tokenizer        *)
(* (Token, TokenIter), the field parser (Field::get_num, get_val,          *)
(* from_toks), the field policies (Convert, FieldDisp), the renderer       *)
(* (Printer::print) and the request handler respond, which is modelled as  *)
(* a state machine over its statements.                                    *)
(*                                                                         *)
(* A char is a one-character string, a Vec<char> a sequence of chars, a    *)
(* Rust String / &str a TLA+ string (built with \o), a usize a natural     *)
(* number.  Every write to the output sink is one element of out.          *)
(***************************************************************************)
EXTENDS Integers, Sequences, FiniteSets, TLC

-----------------------------------------------------------------------------
(* Characters *)

LF  == "\n"
CR  == "\r"
TAB == "\t"
NUL == "<NUL>"     \* stands for the single char '\0'

DigitSeq == <<"0","1","2","3","4","5","6","7","8","9">>
LowerSeq == <<"a","b","c","d","e","f","g","h","i","j","k","l","m",
              "n","o","p","q","r","s","t","u","v","w","x","y","z">>
UpperSeq == <<"A","B","C","D","E","F","G","H","I","J","K","L","M",
              "N","O","P","Q","R","S","T","U","V","W","X","Y","Z">>

Elems(f) == {f[i] : i \in DOMAIN f}

Digits == Elems(DigitSeq)
Lowers == Elems(LowerSeq)
Uppers == Elems(UpperSeq)

IndexOf(seq, x) == CHOOSE i \in DOMAIN seq : seq[i] = x

\* char::to_ascii_uppercase
to_ascii_uppercase(c) ==
    IF c \in Lowers THEN UpperSeq[IndexOf(LowerSeq, c)] ELSE c

\* Iterator<char>::collect::<String>()
RECURSIVE Concat(_)
Concat(cs) == IF cs = <<>> THEN "" ELSE Head(cs) \o Concat(Tail(cs))

-----------------------------------------------------------------------------
(* Token *)

Delim    == [cls |-> "Delim"]
Asterik  == [cls |-> "Asterik"]
Comma    == [cls |-> "Comma"]
Dash     == [cls |-> "Dash"]
Slash    == [cls |-> "Slash"]
EOF      == [cls |-> "EOF"]
Num(c)   == [cls |-> "Num", c |-> c]
Alpha(c) == [cls |-> "Alpha", c |-> c]

None    == [some |-> FALSE]
Some(x) == [some |-> TRUE, val |-> x]

from_char(c) ==
    CASE c = "*" -> Some(Asterik)
      [] c = "," -> Some(Comma)
      [] c \in Digits -> Some(Num(c))
      [] c = "-" -> Some(Dash)
      [] c = "/" -> Some(Slash)
      [] c \in {" ", TAB, LF, CR, NUL} -> Some(Delim)
      [] c \in Lowers \cup Uppers -> Some(Alpha(c))
      [] OTHER -> None

\* is_legal_after with a Dash also accepted after a Delim
is_legal_after_DashAfterDelim(self, t) ==
    CASE self.cls = "Asterik" -> t.cls \in {"Delim", "Comma"}
      [] self.cls = "Comma"   -> t.cls \in {"Asterik", "Num", "Alpha"}
      [] self.cls = "Num"     -> t.cls \in {"Delim", "Num", "Slash", "Comma", "Dash"}
      [] self.cls = "Dash"    -> t.cls \in {"Delim", "Num", "Alpha"}
      [] self.cls = "Slash"   -> t.cls \in {"Num", "Asterik", "Alpha"}
      [] self.cls \in {"Delim", "EOF"} -> t.cls \in {"Delim", "Asterik", "Num", "Alpha"}
      [] self.cls = "Alpha"   -> t.cls \in {"Delim", "Alpha", "Slash", "Comma", "Dash"}

\* self.is_legal_after(t): may a token of class self follow the token t
is_legal_after(self, t) ==
    CASE self.cls = "Asterik" -> t.cls \in {"Delim", "Comma"}
      [] self.cls = "Comma"   -> t.cls \in {"Asterik", "Num", "Alpha"}
      [] self.cls = "Num"     -> t.cls \in {"Delim", "Num", "Slash", "Comma", "Dash"}
      [] self.cls = "Dash"    -> t.cls \in {"Num", "Alpha"}
      [] self.cls = "Slash"   -> t.cls \in {"Num", "Asterik", "Alpha"}
      [] self.cls \in {"Delim", "EOF"} -> t.cls \in {"Delim", "Asterik", "Num", "Alpha"}
      [] self.cls = "Alpha"   -> t.cls \in {"Delim", "Alpha", "Slash", "Comma", "Dash"}

-----------------------------------------------------------------------------
(* TokenIter: idx counts from 0 as in the source, v[idx] is v[idx + 1] here *)

TokenIter_new(v) == [v |-> v, idx |-> 0, start |-> TRUE, prev |-> Delim]

\* One call of next(): the item returned and the iterator afterwards
TokenIter_next(it) ==
    IF it.start
    THEN [item |-> Some(Delim), it |-> [it EXCEPT !.start = FALSE]]
    ELSE IF it.idx > Len(it.v)
    THEN [item |-> None, it |-> it]
    ELSE IF it.idx = Len(it.v)
    THEN IF is_legal_after(EOF, it.prev)
         THEN [item |-> Some(EOF), it |-> [it EXCEPT !.idx = it.idx + 1]]
         ELSE [item |-> None, it |-> [it EXCEPT !.idx = it.idx + 1]]
    ELSE LET fc == from_char(it.v[it.idx + 1])
         IN  IF ~fc.some
             THEN [item |-> None, it |-> it]
             ELSE IF is_legal_after(fc.val, it.prev)
                  THEN [item |-> Some(fc.val),
                        it |-> [it EXCEPT !.prev = fc.val, !.idx = it.idx + 1]]
                  ELSE [item |-> None, it |-> it]

\* Iterator::last(): runs next() until it returns None, keeps the last item
RECURSIVE IterLast(_, _)
IterLast(it, acc) ==
    LET r == TokenIter_next(it)
    IN  IF r.item.some THEN IterLast(r.it, r.item) ELSE acc

\* Iterator::collect::<Vec<Token>>(): every item up to the first None
RECURSIVE IterCollect(_, _)
IterCollect(it, acc) ==
    LET r == TokenIter_next(it)
    IN  IF r.item.some THEN IterCollect(r.it, Append(acc, r.item.val)) ELSE acc

-----------------------------------------------------------------------------
(* Result values, and usize <-> text *)

Ok(x)  == [st |-> "Ok", val |-> x]
Err(e) == [st |-> "Err", err |-> e]
Panic  == [st |-> "Panic"]

\* respond has not returned yet
Running == [st |-> "Running"]

DigitVal(c) == IndexOf(DigitSeq, c) - 1

\* usize::MAX of a 64-bit target, 18446744073709551615, digit by digit
UsizeMaxDigits ==
    <<"1","8","4","4","6","7","4","4","0","7","3","7","0","9","5","5","1","6","1","5">>

RECURSIVE StripZeros(_)
StripZeros(cs) ==
    IF cs # <<>> /\ Head(cs) = "0" THEN StripZeros(Tail(cs)) ELSE cs

\* a <= b for two digit sequences of the same length
RECURSIVE DigitsLeq(_, _)
DigitsLeq(a, b) ==
    IF a = <<>> THEN TRUE
    ELSE IF DigitVal(Head(a)) < DigitVal(Head(b)) THEN TRUE
    ELSE IF DigitVal(Head(a)) > DigitVal(Head(b)) THEN FALSE
    ELSE DigitsLeq(Tail(a), Tail(b))

FitsUsize(cs) ==
    LET sig == StripZeros(cs)
    IN  \/ Len(sig) < Len(UsizeMaxDigits)
        \/ Len(sig) = Len(UsizeMaxDigits) /\ DigitsLeq(sig, UsizeMaxDigits)

RECURSIVE DigitsValue(_)
DigitsValue(cs) ==
    IF cs = <<>> THEN 0
    ELSE DigitsValue(SubSeq(cs, 1, Len(cs) - 1)) * 10 + DigitVal(cs[Len(cs)])

\* str::parse::<usize>() of a string of decimal digits: the empty string and a
\* value above usize::MAX are errors
parse_usize(cs) ==
    IF cs = <<>> \/ ~FitsUsize(cs) THEN Err("ParseIntError")
    ELSE Ok(DigitsValue(StripZeros(cs)))

\* format!("{}", n) of a usize
RECURSIVE NumStr(_)
NumStr(n) ==
    IF n < 10 THEN DigitSeq[n + 1]
    ELSE NumStr(n \div 10) \o DigitSeq[(n % 10) + 1]

\* format!("{:02}", n) of a usize: zero-padded to two digits
NumStr02(n) == IF n < 10 THEN "0" \o NumStr(n) ELSE NumStr(n)

\* format!("{:02}", s) of a &str: the width pads a shorter string with the fill
\* character (a space; the 0 flag applies to numbers only)
Str02(s) == IF Len(s) >= 2 THEN s ELSE IF Len(s) = 1 THEN s \o " " ELSE "  "

-----------------------------------------------------------------------------
(* Field kinds: FieldDisp and Convert *)

Kinds == <<"Minute", "Hour", "DayOfMonth", "Month", "DayOfWeek">>

typestr(typ) ==
    CASE typ = "Minute" -> "minute"
      [] typ = "Hour" -> "hour"
      [] typ = "DayOfMonth" -> "day-of-month"
      [] typ = "Month" -> "month"
      [] typ = "DayOfWeek" -> "day-of-week"

atstr(typ) ==
    CASE typ = "Minute" -> "at minute"
      [] typ = "Hour" -> "past hour"
      [] typ = "DayOfMonth" -> "on day-of-month"
      [] typ = "Month" -> "in"
      [] typ = "DayOfWeek" -> "on"

atword(typ) ==
    CASE typ = "Minute" -> "at"
      [] typ = "Hour" -> "past"
      [] typ = "DayOfMonth" -> "on"
      [] typ = "Month" -> "in"
      [] typ = "DayOfWeek" -> "on"

\* The every-unit phrases with one for the day-of-month
everystr_DayOfMonthPhrase(typ) ==
    CASE typ = "Minute" -> "at every minute"
      [] typ = "Hour" -> "past every hour"
      [] typ = "DayOfMonth" -> "on every day-of-month"
      [] typ = "Month" -> ""
      [] typ = "DayOfWeek" -> ""

everystr(typ) ==
    CASE typ = "Minute" -> "at every minute"
      [] typ = "Hour" -> "past every hour"
      [] typ = "DayOfMonth" -> ""
      [] typ = "Month" -> ""
      [] typ = "DayOfWeek" -> ""

MonthNames == <<"JAN","FEB","MAR","APR","MAY","JUN","JUL","AUG","SEP","OCT","NOV","DEC">>
DayNames   == <<"SUN","MON","TUE","WED","THU","FRI","SAT">>

Minute_from_num(n) ==
    IF n < 60 THEN Ok(n) ELSE Err("Invalid MINUTE value " \o NumStr(n))

Hour_from_num(n) ==
    IF n < 24 THEN Ok(n) ELSE Err("Invalid HOUR value " \o NumStr(n))

\* The day-of-month check with the days of a calendar month, 1..31
DayOfMonth_from_num_To31(n) ==
    IF n \in 1..31 THEN Ok(n) ELSE Err("Invalid DAY-OF-MONTH value " \o NumStr(n))

DayOfMonth_from_num(n) ==
    IF n \in 1..23 THEN Ok(n) ELSE Err("Invalid DAY-OF-MONTH value " \o NumStr(n))

Month_from_num(n) ==
    IF n \in 1..12 THEN Ok(MonthNames[n]) ELSE Err("Invalid MONTH value " \o NumStr(n))

DayOfWeek_from_num(n) ==
    IF n \in 0..6 THEN Ok(DayNames[n + 1]) ELSE Err("Invalid DAY-OF-WEEK value " \o NumStr(n))

from_num(typ, n) ==
    CASE typ = "Minute" -> Minute_from_num(n)
      [] typ = "Hour" -> Hour_from_num(n)
      [] typ = "DayOfMonth" -> DayOfMonth_from_num(n)
      [] typ = "Month" -> Month_from_num(n)
      [] typ = "DayOfWeek" -> DayOfWeek_from_num(n)

Minute_alpha_to_num(s) == Err("Invalid MINUTE value " \o s)

Hour_alpha_to_num(s) == Err("Invalid HOUR value " \o s)

DayOfMonth_alpha_to_num(s) == Err("Invalid DAY-OF-MONTH value " \o s)

\* names.iter().position(..) is i, counted from 0; the result is i + 1
Month_alpha_to_num(s) ==
    IF s \in Elems(MonthNames) THEN Ok(IndexOf(MonthNames, s))
    ELSE Err("Invalid DAY-OF-WEEK value " \o s)

\* The day names numbered from 1, as the month names are
DayOfWeek_alpha_to_num_FromOne(s) ==
    IF s \in Elems(DayNames) THEN Ok(IndexOf(DayNames, s))
    ELSE Err("Invalid DAY-OF-WEEK value " \o s)

\* the result is the position counted from 0
DayOfWeek_alpha_to_num(s) ==
    IF s \in Elems(DayNames) THEN Ok(IndexOf(DayNames, s) - 1)
    ELSE Err("Invalid DAY-OF-WEEK value " \o s)

alpha_to_num(typ, s) ==
    CASE typ = "Minute" -> Minute_alpha_to_num(s)
      [] typ = "Hour" -> Hour_alpha_to_num(s)
      [] typ = "DayOfMonth" -> DayOfMonth_alpha_to_num(s)
      [] typ = "Month" -> Month_alpha_to_num(s)
      [] typ = "DayOfWeek" -> DayOfWeek_alpha_to_num(s)

\* Display of a pattern value P: a usize for Minute, Hour and DayOfMonth, a
\* &str for Month and DayOfWeek
IsNamed(typ) == typ \in {"Month", "DayOfWeek"}
Disp(typ, v)   == IF IsNamed(typ) THEN v ELSE NumStr(v)
Disp02(typ, v) == IF IsNamed(typ) THEN Str02(v) ELSE NumStr02(v)

-----------------------------------------------------------------------------
(* Pattern *)

PAt(v)           == [type |-> "At", v |-> v]
PEvery(n)        == [type |-> "Every", step |-> n]
PRange(f, t, n)  == [type |-> "Range", from |-> f, to |-> t, step |-> n]

\* impl Display for Pattern
Pattern_fmt(typ, pat) == IF pat.type = "At" THEN Disp02(typ, pat.v) ELSE ""

-----------------------------------------------------------------------------
(* Field<F, P>: slices of the token vector are sequences of tokens; indexing   *)
(* an empty slice, slicing past the end and unwrap() of None are panics        *)

\* s.iter().position(|t| !matches!(t, cls)), counted from 0; -1 stands for None
PositionNot(s, cls) ==
    IF \E i \in DOMAIN s : s[i].cls # cls
    THEN (CHOOSE i \in DOMAIN s :
              /\ s[i].cls # cls
              /\ \A j \in 1..(i - 1) : s[j].cls = cls) - 1
    ELSE -1

\* &s[n..]
SliceFrom(s, n) == SubSeq(s, n + 1, Len(s))

\* s[..idx].iter().map(|t| c of t)
CharsOf(s, idx) == [i \in 1..idx |-> s[i].c]

\* The tokens that end a pattern, without the comma
Terminators_NoComma == {"EOF", "Delim"}

\* lines 409, 423, 433: Token::EOF|Token::Delim|Token::Comma
Terminators == {"EOF", "Delim", "Comma"}

get_num(s) ==
    LET idx == PositionNot(s, "Num")
    IN  IF idx < 0 THEN Panic
        ELSE LET p == parse_usize(CharsOf(s, idx))
             IN  IF p.st = "Ok"
                 THEN [st |-> "Ok", rest |-> SliceFrom(s, idx), num |-> p.val]
                 ELSE Err("Error parsing a number")

get_val(typ, s) ==
    LET g == get_num(s)
    IN  IF g.st # "Err" THEN g
        ELSE LET idx == PositionNot(s, "Alpha")
             IN  IF idx < 0 THEN Panic
                 ELSE LET valstr == Concat([i \in 1..idx |-> to_ascii_uppercase(s[i].c)])
                          a == alpha_to_num(typ, valstr)
                      IN  IF a.st = "Ok"
                          THEN [st |-> "Ok", rest |-> SliceFrom(s, idx), num |-> a.val]
                          ELSE Err(a.err)

\* The range check with equal bounds let through
RangeIsInvalid_Strict(num1, num2) == num2 < num1

\* line 429: the range check on the two values read
RangeIsInvalid(num1, num2) == num2 <= num1

\* The value/range form of from_toks, from the first get_val on
from_toks_value(typ, pats, s) ==
    LET v1 == get_val(typ, s)
    IN  IF v1.st # "Ok" THEN v1
        ELSE LET ret == v1.rest
                 num1 == v1.num
             IN
        IF Len(ret) = 0 THEN Panic
        ELSE IF ret[1].cls \in Terminators
        THEN LET f1 == from_num(typ, num1)
             IN  IF f1.st # "Ok" THEN f1
                 ELSE [st |-> "Ok", rest |-> ret, pats |-> Append(pats, PAt(f1.val))]
        ELSE IF ret[1].cls = "Dash"
        THEN LET v2 == get_val(typ, SliceFrom(ret, 1))
             IN  IF v2.st # "Ok" THEN v2
                 ELSE LET ret2 == v2.rest
                          num2 == v2.num
                          f1 == from_num(typ, num1)
                          f2 == from_num(typ, num2)
                      IN
                 IF RangeIsInvalid(num1, num2)
                 THEN Err("Range start (" \o NumStr(num1)
                          \o ") cannot be bigger than or equal to end ("
                          \o NumStr(num2) \o ")")
                 ELSE IF Len(ret2) = 0 THEN Panic
                 ELSE IF ret2[1].cls \in Terminators
                 THEN IF f1.st # "Ok" THEN f1
                      ELSE IF f2.st # "Ok" THEN f2
                      ELSE [st |-> "Ok", rest |-> ret2,
                            pats |-> Append(pats, PRange(f1.val, f2.val, 1))]
                 ELSE IF ret2[1].cls = "Slash"
                 THEN LET g == get_num(SliceFrom(ret2, 1))
                      IN  IF g.st # "Ok" THEN g
                          ELSE IF f1.st # "Ok" THEN f1
                          ELSE IF f2.st # "Ok" THEN f2
                          ELSE [st |-> "Ok", rest |-> g.rest,
                                pats |-> Append(pats, PRange(f1.val, f2.val, g.num))]
                 ELSE Err("Invalid char after range end number")
        ELSE Err("Invalid char after number")

\* from_toks(&mut self, s): on Ok the pattern list with the new pattern pushed
\* and the remaining slice; on Err the list is the caller's, unchanged
from_toks(typ, pats, s) ==
    IF Len(s) = 0 THEN Panic
    ELSE IF s[1].cls = "Asterik"
    THEN IF Len(s) < 2 THEN Panic
         ELSE IF s[2].cls \in Terminators
         THEN [st |-> "Ok", rest |-> SliceFrom(s, 1), pats |-> Append(pats, PEvery(1))]
         ELSE IF s[2].cls = "Slash"
         THEN LET g == get_num(SliceFrom(s, 2))
              IN  IF g.st # "Ok" THEN g
                  ELSE [st |-> "Ok", rest |-> g.rest, pats |-> Append(pats, PEvery(g.num))]
         ELSE Err("Illegal char after *")
    ELSE from_toks_value(typ, pats, s)

-----------------------------------------------------------------------------
(* Printer::print: the writes, in order, that printing a field makes *)

\* The suffix taken from the last digit of the step
Suffix_Mod10(step) ==
    CASE step % 10 = 2 -> "nd"
      [] step % 10 = 3 -> "rd"
      [] OTHER -> "th"

\* lines 467-469, 475-477: the suffix of the arms 2, 3 and _ of match step % 20
Suffix(step) ==
    CASE step % 20 = 2 -> "nd"
      [] step % 20 = 3 -> "rd"
      [] OTHER -> "th"

print_pat(typ, pat) ==
    CASE pat.type = "At" ->
            <<atstr(typ) \o " " \o Disp02(typ, pat.v) \o LF>>
      [] pat.type = "Every" ->
            IF pat.step % 20 = 1
            THEN IF everystr(typ) = "" THEN <<>> ELSE <<everystr(typ) \o LF>>
            ELSE <<atword(typ) \o " every " \o NumStr(pat.step) \o Suffix(pat.step)
                   \o " " \o typestr(typ) \o LF>>
      [] pat.type = "Range" ->
            IF pat.step % 20 = 1
            THEN <<atword(typ) \o " every " \o typestr(typ) \o " from "
                   \o Disp(typ, pat.from) \o " to " \o Disp(typ, pat.to) \o LF>>
            ELSE <<atword(typ) \o " every " \o NumStr(pat.step) \o Suffix(pat.step)
                   \o " " \o typestr(typ) \o " from "
                   \o Disp(typ, pat.from) \o " to " \o Disp(typ, pat.to) \o LF>>

RECURSIVE print(_, _)
print(typ, pats) ==
    IF pats = <<>> THEN <<>>
    ELSE print_pat(typ, Head(pats)) \o print(typ, Tail(pats))

-----------------------------------------------------------------------------
(* The requests explored.  A request is the String handed to respond, as a   *)
(* sequence of chars: a body followed by a tail (nothing, or the line        *)
(* terminator and NUL padding that main's zeroed read buffer leaves).        *)

MaxLen    == 3     \* longest body drawn from Sigma
MaxNum    == 25    \* largest value and range bound of the one-pattern bodies
MaxFields == 6     \* most fields of the field-count bodies

Chars(s) == [i \in 1..Len(s) |-> SubSeq(s, i, i)]

\* One char of every token class, and one that is no token
Sigma == {"*", ",", "1", "-", "/", " ", "a", "@"}

RECURSIVE StringsUpTo(_)
StringsUpTo(n) ==
    IF n = 0 THEN {<<>>}
    ELSE LET shorter == StringsUpTo(n - 1)
         IN  shorter \cup {Append(w, c) : w \in {x \in shorter : Len(x) = n - 1}, c \in Sigma}

ShortBodies == StringsUpTo(MaxLen)

MinPool  == {Chars("5"), Chars("*"), Chars("*/15"), Chars("1,2")}
HourPool == {Chars("4"), Chars("*"), Chars("*/2"), Chars("4,5")}
DomPool  == {Chars("*"), Chars("1"), Chars("1-5/2"), Chars("*/21"), Chars("2,3"), Chars("*,*")}
MonPool  == {Chars("*"), Chars("1"), Chars("jan-mar"), Chars("*/3"), Chars("FEB,4")}
DowPool  == {Chars("*"), Chars("0"), Chars("mon-fri"), Chars("*/2"), Chars("*/41")}

Sp == <<" ">>

FiveFieldBodies ==
    {a \o Sp \o b \o Sp \o c \o Sp \o d \o Sp \o e :
        a \in MinPool, b \in HourPool, c \in DomPool, d \in MonPool, e \in DowPool}

\* Bodies of 0..MaxFields fields
CountPool == {Chars("*"), Chars("1,2")}

RECURSIVE FieldCountBodies(_)
FieldCountBodies(k) ==
    IF k = 0 THEN {<<>>}
    ELSE IF k = 1 THEN CountPool \cup {<<>>}
    ELSE LET fewer == FieldCountBodies(k - 1)
         IN  fewer \cup {w \o Sp \o f : w \in {x \in fewer : x # <<>>}, f \in CountPool}

\* One pattern in the field of each kind, the other fields "*"
Stars(n) == [i \in 1..(2 * n) |-> IF i % 2 = 1 THEN "*" ELSE " "]

InField(k, text) == Stars(k - 1) \o text \o SubSeq(Sp \o Stars(5 - k), 1, 2 * (5 - k))

Steps == {1, 2, 3, 11, 12, 15, 20, 21, 22, 23, 41}

ValueTexts == {Chars(NumStr(v)) : v \in 0..MaxNum} \cup {Chars("59"), Chars("60"), Chars("007")}
             \cup {Chars("jan"), Chars("Dec"), Chars("SUN"), Chars("sat"), Chars("xyz"), Chars("ja")}

BoundTexts == {Chars(NumStr(v)) : v \in {0, 1, 2, 6, 7, 12, 13, 23, 24, 59, 60}}
             \cup {Chars("jan"), Chars("mar"), Chars("NOV"), Chars("mon"), Chars("Sat")}

PatternTexts ==
    ValueTexts
    \cup {a \o <<"-">> \o b : a \in BoundTexts, b \in BoundTexts}
    \cup {Chars("*/") \o Chars(NumStr(n)) : n \in Steps}
    \cup {Chars("1-5/") \o Chars(NumStr(n)) : n \in Steps}
    \cup {Chars("*/a"), Chars("*/5-3"), Chars("*/5/3"), Chars("1/2"), Chars("1-2-3"),
          Chars("1-5/x"), Chars("30-20/x"), Chars("1-99/x"), Chars("*/5,1"),
          Chars("99999999999999999999"), Chars("18446744073709551616"),
          Chars("*/18446744073709551616"), Chars("1-99999999999999999999"),
          Chars("1-5/99999999999999999999")}

OnePatternBodies == {InField(k, t) : k \in 1..5, t \in PatternTexts}

Shorthands == {Chars("@yearly"), Chars("@annually"), Chars("@monthly"), Chars("@weekly"),
               Chars("@daily"), Chars("@hourly"), Chars("@reboot"), Chars("@Yearly"),
               Chars("@year")}

\* The expansions, given as raw expressions, and the scenarios of the documentation
Scenarios == {Chars("0 0 1 1 *"), Chars("0 0 1 * *"), Chars("0 0 * * 0"), Chars("0 0 * * *"),
              Chars("0 * * * *"), Chars("*/15 * * * *"), Chars("5 4 1-5/2 * *"),
              Chars("5 4 3-1 * *"), Chars("  5  4 * * *  "), <<"5", TAB, "4", " ">> \o Chars("* * *"),
              Chars("5 4 * * * 6"), Chars("5 4 * * * *"), Chars("1 2 3 4 5"),
              Chars("5\r4 * * *"), Chars("59 23 23 dec sat"), Chars("* * */21 * mon")}

\* Bodies given as they are, and bodies also given with a line terminator and NUL padding
PlainBodies == FiveFieldBodies \cup FieldCountBodies(MaxFields)

TailedBodies == ShortBodies \cup OnePatternBodies \cup Shorthands \cup Scenarios

Padding == <<LF, NUL, NUL>>

\* main hands over its whole 64-byte buffer, so a request is never empty
Requests ==
    (PlainBodies \cup TailedBodies \cup {b \o Padding : b \in TailedBodies}) \ {<<>>}

-----------------------------------------------------------------------------
(* respond and the part of main around it *)

VARIABLES
    req,      \* the request String, as its chars
    pc,       \* the statement of respond (or of main) that runs next
    mapstr,   \* the expression that is tokenized
    ptr,      \* the slice of toks not consumed yet
    state,    \* FieldType: the kind of the field being parsed, or "End"
    min, hrs, dom, mon, dow,   \* the pattern list (pats) of each Field
    out,      \* the TcpStream: every write made so far, in order
    ret,      \* what respond returned: Ok, Err(e) or Panic; Running before that
    rest,     \* the chunks the client of the connection has not sent yet
    sock,     \* the bytes that arrived on the connection and were not read yet
    prior     \* the connections served before this one: first line, result, output

vars == <<req, pc, mapstr, ptr, state, min, hrs, dom, mon, dow, out, ret, rest, sock, prior>>

\* The state of main around a call of respond
conn == <<rest, sock, prior>>

fields == <<min, hrs, dom, mon, dow>>

\* req.lines().nth(0): the chars before the first "\n", without the "\r" of a
\* "\r\n" terminator; None when the string is empty
FirstLine(r) ==
    IF r = <<>> THEN None
    ELSE IF \E i \in DOMAIN r : r[i] = LF
    THEN LET n == CHOOSE i \in DOMAIN r : r[i] = LF /\ \A j \in 1..(i - 1) : r[j] # LF
             line == SubSeq(r, 1, n - 1)
         IN  IF line # <<>> /\ line[Len(line)] = CR
             THEN Some(Concat(SubSeq(line, 1, Len(line) - 1)))
             ELSE Some(Concat(line))
    ELSE Some(Concat(r))

\* The text main writes after a successful respond (a bird emoji and the
\* handle @bufrsh in ANSI colour)
Banner == "\n\n<bird> <cyan>@bufrsh<reset> "

Init ==
    /\ req \in Requests
    /\ pc = "expand"
    /\ mapstr = <<>>
    /\ ptr = <<>>
    /\ state = "Minute"
    /\ min = <<>> /\ hrs = <<>> /\ dom = <<>> /\ mon = <<>> /\ dow = <<>>
    /\ out = <<>>
    /\ ret = Running
    /\ rest = <<>> /\ sock = <<>> /\ prior = <<>>

Return(r) == ret' = r /\ pc' = "returned"

\* The shorthand arms with @weekly on Monday
Shorthand_WeeklyOnMonday(line, r) ==
    CASE line \in {"@yearly", "@annually"} -> Chars("0 0 1 1 *")
      [] line = "@monthly" -> Chars("0 0 1 * *")
      [] line = "@weekly"  -> Chars("0 0 * * 1")
      [] line = "@daily"   -> Chars("0 0 * * *")
      [] line = "@hourly"  -> Chars("0 * * * *")
      [] OTHER -> r

\* lines 497-509, the arms that give mapstr: the expansion of a shorthand first
\* line, or the whole request
Shorthand(line, r) ==
    CASE line \in {"@yearly", "@annually"} -> Chars("0 0 1 1 *")
      [] line = "@monthly" -> Chars("0 0 1 * *")
      [] line = "@weekly"  -> Chars("0 0 * * 0")
      [] line = "@daily"   -> Chars("0 0 * * *")
      [] line = "@hourly"  -> Chars("0 * * * *")
      [] OTHER -> r

\* lines 497-509: the shorthand forms
Expand ==
    /\ pc = "expand"
    /\ LET first == FirstLine(req)
       IN  IF ~first.some
           THEN /\ Return(Panic)
                /\ UNCHANGED <<mapstr, out>>
           ELSE IF first.val = "@reboot"
           THEN /\ out' = Append(out, "Run after reboot")
                /\ Return(Ok("unit"))
                /\ UNCHANGED mapstr
           ELSE /\ mapstr' = Shorthand(first.val, req)
                /\ pc' = "precheck"
                /\ UNCHANGED <<out, ret>>
    /\ UNCHANGED <<conn, req, ptr, state, fields>>

\* The start of respond without the test of the last token
Precheck_NoTest ==
    /\ pc = "precheck"
    /\ pc' = "collect"
    /\ UNCHANGED <<conn, req, mapstr, ptr, state, fields, out, ret>>

\* lines 511-514: the stream of a first TokenIter must end with EOF
Precheck ==
    /\ pc = "precheck"
    /\ LET last == IterLast(TokenIter_new(mapstr), None)
       IN  IF ~last.some THEN Return(Panic)
           ELSE IF last.val.cls # "EOF" THEN Return(Err("CRON syntax error"))
           ELSE pc' = "collect" /\ UNCHANGED ret
    /\ UNCHANGED <<conn, req, mapstr, ptr, state, fields, out>>

\* lines 516-525: the five empty fields, the token vector and the slice over it
Collect ==
    /\ pc = "collect"
    /\ min' = <<>> /\ hrs' = <<>> /\ dom' = <<>> /\ mon' = <<>> /\ dow' = <<>>
    /\ state' = "Minute"
    /\ ptr' = IterCollect(TokenIter_new(mapstr), <<>>)
    /\ pc' = "boundary"
    /\ UNCHANGED <<conn, req, mapstr, out, ret>>

\* lines 529-537: the inner loop; "Break" stands for break 'outer
RECURSIVE SkipDelims(_)
SkipDelims(p) ==
    IF Len(p) = 0 THEN Panic
    ELSE IF p[1].cls = "Delim" THEN SkipDelims(SliceFrom(p, 1))
    ELSE IF p[1].cls = "EOF" THEN [st |-> "Break"]
    ELSE [st |-> "Ok", ptr |-> p]

\* lines 527-546: the token a pattern starts after
Boundary ==
    /\ pc = "boundary"
    /\ IF Len(ptr) = 0
       THEN Return(Panic) /\ UNCHANGED <<ptr, out>>
       ELSE CASE ptr[1].cls = "Delim" ->
                   (LET r == SkipDelims(ptr)
                    IN  IF r.st = "Panic" THEN Return(Panic) /\ UNCHANGED <<ptr, out>>
                        ELSE IF r.st = "Break"
                        THEN pc' = "check" /\ UNCHANGED <<ptr, out, ret>>
                        ELSE ptr' = r.ptr /\ pc' = "field" /\ UNCHANGED <<out, ret>>)
              [] ptr[1].cls = "Comma" ->
                   ptr' = SliceFrom(ptr, 1) /\ pc' = "field" /\ UNCHANGED <<out, ret>>
              [] ptr[1].cls = "EOF" ->
                   pc' = "check" /\ UNCHANGED <<ptr, out, ret>>
              [] OTHER ->
                   /\ out' = Append(out, "Pattern doesn't start/end on correct token" \o LF)
                   /\ Return(Err("Bad CRON"))
                   /\ UNCHANGED ptr
    /\ UNCHANGED <<conn, req, mapstr, state, fields>>

\* The pattern list of the field of a kind
PatsOf(k) ==
    CASE k = "Minute" -> min
      [] k = "Hour" -> hrs
      [] k = "DayOfMonth" -> dom
      [] k = "Month" -> mon
      [] k = "DayOfWeek" -> dow

\* The next kind with the day-of-week field left out
NextState_SkipDayOfWeek(k) ==
    CASE k = "Minute" -> "Hour"
      [] k = "Hour" -> "DayOfMonth"
      [] k = "DayOfMonth" -> "Month"
      [] k = "Month" -> "End"
      [] k = "DayOfWeek" -> "End"

\* lines 556-563
NextState(k) ==
    CASE k = "Minute" -> "Hour"
      [] k = "Hour" -> "DayOfMonth"
      [] k = "DayOfMonth" -> "Month"
      [] k = "Month" -> "DayOfWeek"
      [] k = "DayOfWeek" -> "End"

\* The dispatch with the hour arm calling min.from_toks
ParseField_HourIntoMinute ==
    /\ pc = "field"
    /\ IF state = "End"
       THEN Return(Err("Bad CRON")) /\ UNCHANGED <<ptr, state, fields>>
       ELSE LET target == IF state = "Hour" THEN "Minute" ELSE state
                r == from_toks(target, PatsOf(target), ptr)
            IN  IF r.st # "Ok"
                THEN Return(r) /\ UNCHANGED <<ptr, state, fields>>
                ELSE /\ min' = IF target = "Minute" THEN r.pats ELSE min
                     /\ hrs' = hrs
                     /\ dom' = IF target = "DayOfMonth" THEN r.pats ELSE dom
                     /\ mon' = IF target = "Month" THEN r.pats ELSE mon
                     /\ dow' = IF target = "DayOfWeek" THEN r.pats ELSE dow
                     /\ ptr' = r.rest
                     /\ IF Len(r.rest) = 0
                        THEN Return(Panic) /\ UNCHANGED state
                        ELSE /\ state' = IF r.rest[1].cls \in {"Delim", "EOF"}
                                         THEN NextState(state) ELSE state
                             /\ pc' = "boundary"
                             /\ UNCHANGED ret
    /\ UNCHANGED <<conn, req, mapstr, out>>

\* lines 547-564: one pattern of the current field, then the next kind when
\* the pattern ends the field
ParseField ==
    /\ pc = "field"
    /\ IF state = "End"
       THEN Return(Err("Bad CRON")) /\ UNCHANGED <<ptr, state, fields>>
       ELSE LET r == from_toks(state, PatsOf(state), ptr)
            IN  IF r.st # "Ok"
                THEN Return(r) /\ UNCHANGED <<ptr, state, fields>>
                ELSE /\ min' = IF state = "Minute" THEN r.pats ELSE min
                     /\ hrs' = IF state = "Hour" THEN r.pats ELSE hrs
                     /\ dom' = IF state = "DayOfMonth" THEN r.pats ELSE dom
                     /\ mon' = IF state = "Month" THEN r.pats ELSE mon
                     /\ dow' = IF state = "DayOfWeek" THEN r.pats ELSE dow
                     /\ ptr' = r.rest
                     /\ IF Len(r.rest) = 0
                        THEN Return(Panic) /\ UNCHANGED state
                        ELSE /\ state' = IF r.rest[1].cls \in {"Delim", "EOF"}
                                         THEN NextState(state) ELSE state
                             /\ pc' = "boundary"
                             /\ UNCHANGED ret
    /\ UNCHANGED <<conn, req, mapstr, out>>

\* The end of the loop without the test of the kind
CheckEnd_NoTest ==
    /\ pc = "check"
    /\ pc' = "run"
    /\ UNCHANGED <<conn, req, mapstr, ptr, state, fields, out, ret>>

\* lines 567-569
CheckEnd ==
    /\ pc = "check"
    /\ IF state # "End"
       THEN Return(Err("Incomplete CRON"))
       ELSE pc' = "run" /\ UNCHANGED ret
    /\ UNCHANGED <<conn, req, mapstr, ptr, state, fields, out>>

\* line 571
WriteRun ==
    /\ pc = "run"
    /\ out' = Append(out, "Run" \o LF)
    /\ pc' = "minhour"
    /\ UNCHANGED <<conn, req, mapstr, ptr, state, fields, ret>>

\* The compaction decided on the first pattern of each field alone
MinHourSection_FirstPatternOnly ==
    IF Len(min) >= 1 /\ Len(hrs) >= 1 /\ min[1].type = "At" /\ hrs[1].type = "At"
    THEN <<"at " \o Pattern_fmt("Hour", hrs[1]) \o ":" \o Pattern_fmt("Minute", min[1]) \o LF>>
    ELSE print("Minute", min) \o print("Hour", hrs)

\* lines 573-578
MinHourSection ==
    IF Len(min) = 1 /\ Len(hrs) = 1 /\ min[1].type = "At" /\ hrs[1].type = "At"
    THEN <<"at " \o Pattern_fmt("Hour", hrs[1]) \o ":" \o Pattern_fmt("Minute", min[1]) \o LF>>
    ELSE print("Minute", min) \o print("Hour", hrs)

WriteMinHour ==
    /\ pc = "minhour"
    /\ out' = out \o MinHourSection
    /\ pc' = "day"
    /\ UNCHANGED <<conn, req, mapstr, ptr, state, fields, ret>>

\* A field counted as defined as soon as it holds a pattern
IsDefined_AnyPattern(pats) == pats # <<>>

\* lines 586-589: pats.iter().find(|d| !matches!(d, Pattern::Every(1))).is_some()
IsDefined(pats) == \E i \in DOMAIN pats : pats[i] # PEvery(1)

\* The day section with dom_mon_printed left false after the compacted line
DaySection_PrintedFlagUnset ==
    LET compact == /\ Len(dom) = 1 /\ Len(mon) = 1
                   /\ dom[1].type = "At" /\ mon[1].type = "At"
        first == IF compact
                 THEN <<"on " \o Pattern_fmt("Month", mon[1]) \o " "
                        \o Pattern_fmt("DayOfMonth", dom[1]) \o LF>>
                 ELSE <<>>
        both == print("DayOfMonth", dom) \o print("Month", mon)
    IN  first \o
        (CASE (IsDefined(dom) \/ IsDefined(mon)) /\ IsDefined(dow) ->
                both \o <<"and" \o LF>> \o print("DayOfWeek", dow)
           [] (IsDefined(dom) \/ IsDefined(mon)) /\ ~IsDefined(dow) -> both
           [] ~(IsDefined(dom) \/ IsDefined(mon)) /\ IsDefined(dow) ->
                print("DayOfMonth", dom) \o print("DayOfWeek", dow)
           [] OTHER -> print("Month", mon))

\* lines 580-616
DaySection ==
    LET compact == /\ Len(dom) = 1 /\ Len(mon) = 1
                   /\ dom[1].type = "At" /\ mon[1].type = "At"
        first == IF compact
                 THEN <<"on " \o Pattern_fmt("Month", mon[1]) \o " "
                        \o Pattern_fmt("DayOfMonth", dom[1]) \o LF>>
                 ELSE <<>>
        dom_mon_printed == compact
        is_dom_mon_defined == IsDefined(dom) \/ IsDefined(mon)
        is_dow_defined == IsDefined(dow)
    IN  first \o
        (CASE is_dom_mon_defined /\ is_dow_defined ->
                (IF ~dom_mon_printed
                 THEN print("DayOfMonth", dom) \o print("Month", mon) ELSE <<>>)
                \o <<"and" \o LF>> \o print("DayOfWeek", dow)
           [] is_dom_mon_defined /\ ~is_dow_defined ->
                (IF ~dom_mon_printed
                 THEN print("DayOfMonth", dom) \o print("Month", mon) ELSE <<>>)
           [] ~is_dom_mon_defined /\ is_dow_defined ->
                (IF ~dom_mon_printed THEN print("DayOfMonth", dom) ELSE <<>>)
                \o print("DayOfWeek", dow)
           [] ~is_dom_mon_defined /\ ~is_dow_defined ->
                (IF ~dom_mon_printed THEN print("Month", mon) ELSE <<>>))

WriteDay ==
    /\ pc = "day"
    /\ out' = out \o DaySection
    /\ Return(Ok("unit"))
    /\ UNCHANGED <<conn, req, mapstr, ptr, state, fields>>

\* main, lines 635-643: the banner after Ok, the error's text after Err; a
\* panic ends the connection's thread and writes nothing
Reply ==
    /\ pc = "returned"
    /\ out' = CASE ret.st = "Ok" -> Append(out, Banner)
                [] ret.st = "Err" -> Append(out, ret.err)
                [] OTHER -> out
    /\ pc' = "closed"
    /\ UNCHANGED <<conn, req, mapstr, ptr, state, fields, ret>>

Next ==
    \/ Expand
    \/ Precheck
    \/ Collect
    \/ Boundary
    \/ ParseField
    \/ CheckEnd
    \/ WriteRun
    \/ WriteMinHour
    \/ WriteDay
    \/ Reply

Spec == Init /\ [][Next]_vars

-----------------------------------------------------------------------------
(* main: connections served one after another, each with one read of at most *)
(* BufLen bytes into a zeroed buffer that is handed whole to respond.  The   *)
(* client of a connection sends its message in chunks, at any time.          *)

BufLen         == 64    \* let mut buf = [0u8; 64]
MaxChunks      == 2     \* most chunks a client splits its message into
MaxConnections == 2     \* connections served in one behaviour

\* What the clients send
MainMessages ==
    {Chars("* * * * *") \o <<LF>>, Chars("* * * * *") \o <<LF, "1">>, Chars("* * * * *"),
     Chars("* * * *") \o <<LF, "*">>, Chars("@daily") \o <<LF>>, Chars("@daily") \o <<LF, "1">>,
     Chars("0 0 * * *") \o <<CR, LF>>, Chars("@reboot"), <<>>}

\* A message as it is, or cut into up to n chunks
RECURSIVE Splits(_, _)
Splits(m, n) ==
    IF m = <<>> THEN {<<>>}
    ELSE IF n <= 1 THEN {<<m>>}
    ELSE {<<m>>} \cup
         UNION {{<<SubSeq(m, 1, k)>> \o t : t \in Splits(SubSeq(m, k + 1, Len(m)), n - 1)} :
                    k \in 1..(Len(m) - 1)}

Conversations == UNION {Splits(m, MaxChunks) : m \in MainMessages}

InitMain ==
    /\ rest \in Conversations
    /\ sock = <<>>
    /\ prior = <<>>
    /\ req = <<>>
    /\ pc = "read"
    /\ mapstr = <<>>
    /\ ptr = <<>>
    /\ state = "Minute"
    /\ min = <<>> /\ hrs = <<>> /\ dom = <<>> /\ mon = <<>> /\ dow = <<>>
    /\ out = <<>>
    /\ ret = Running

\* The next chunk of the client arrives
Send ==
    /\ rest # <<>>
    /\ pc # "closed"
    /\ sock' = sock \o Head(rest)
    /\ rest' = Tail(rest)
    /\ UNCHANGED <<prior, req, pc, mapstr, ptr, state, fields, out, ret>>

\* lines 629-635: one read returns the bytes that have arrived, at most BufLen
\* (none when the client has closed its side); the whole buffer becomes req
Read ==
    /\ pc = "read"
    /\ sock # <<>> \/ rest = <<>>
    /\ LET n == IF Len(sock) < BufLen THEN Len(sock) ELSE BufLen
       IN  /\ req' = SubSeq(sock, 1, n) \o [i \in 1..(BufLen - n) |-> NUL]
           /\ sock' = SubSeq(sock, n + 1, Len(sock))
    /\ pc' = "expand"
    /\ UNCHANGED <<rest, prior, mapstr, ptr, state, fields, out, ret>>

\* lines 630, 645: nothing arrives within the read timeout; respond is not
\* called and nothing is written
ReadTimeout ==
    /\ pc = "read"
    /\ sock = <<>>
    /\ pc' = "closed"
    /\ UNCHANGED <<conn, req, mapstr, ptr, state, fields, out, ret>>

\* lines 625-628: the connection that is served next
NextConnection ==
    /\ pc = "closed"
    /\ Len(prior) < MaxConnections - 1
    /\ prior' = Append(prior, [called |-> ret # Running, line |-> FirstLine(req),
                               ret |-> ret, out |-> out])
    /\ rest' \in Conversations
    /\ sock' = <<>>
    /\ req' = <<>>
    /\ pc' = "read"
    /\ mapstr' = <<>>
    /\ ptr' = <<>>
    /\ state' = "Minute"
    /\ min' = <<>> /\ hrs' = <<>> /\ dom' = <<>> /\ mon' = <<>> /\ dow' = <<>>
    /\ out' = <<>>
    /\ ret' = Running

NextMain ==
    \/ Send
    \/ Read
    \/ ReadTimeout
    \/ Expand
    \/ Precheck
    \/ Collect
    \/ Boundary
    \/ ParseField
    \/ CheckEnd
    \/ WriteRun
    \/ WriteMinHour
    \/ WriteDay
    \/ Reply
    \/ NextConnection

SpecMain == InitMain /\ [][NextMain]_vars

-----------------------------------------------------------------------------
(* Vocabulary of the properties *)

Lines == Elems(out)

RunLine == "Run" \o LF
AndLine == "and" \o LF

\* respond got past the shorthand match with an expression to tokenize
Expanded == pc \notin {"expand"} /\ mapstr # <<>>

Finished == pc \in {"returned", "closed"}

\* respond returned Ok after rendering the five fields (not the @reboot arm)
Rendered == Finished /\ ret.st = "Ok" /\ mapstr # <<>>

\* The class of a char by the accepted symbol set; "Unknown" outside it
ClassOf(c) ==
    CASE c \in Digits -> "Num"
      [] c \in Lowers \cup Uppers -> "Alpha"
      [] c = "*" -> "Asterik"
      [] c = "," -> "Comma"
      [] c = "-" -> "Dash"
      [] c = "/" -> "Slash"
      [] c \in {" ", TAB, CR, LF, NUL} -> "Delim"
      [] OTHER -> "Unknown"

\* The adjacency table: the classes a candidate may follow
LegalPrevious(cand) ==
    CASE cand = "Asterik" -> {"Delim", "Comma"}
      [] cand = "Comma" -> {"Asterik", "Num", "Alpha"}
      [] cand = "Num" -> {"Delim", "Num", "Slash", "Comma", "Dash"}
      [] cand = "Dash" -> {"Num", "Alpha"}
      [] cand = "Slash" -> {"Num", "Asterik", "Alpha"}
      [] cand = "Alpha" -> {"Delim", "Alpha", "Slash", "Comma", "Dash"}
      [] cand \in {"Delim", "EOF"} -> {"Delim", "Asterik", "Num", "Alpha"}
      [] OTHER -> {}

\* Every char is accepted and every (previous, candidate) pair is in the table,
\* the previous class starting at Delim and the last candidate being EOF
WellFormed(v) ==
    LET cls(i) == IF i = 0 THEN "Delim"
                  ELSE IF i = Len(v) + 1 THEN "EOF" ELSE ClassOf(v[i])
    IN  /\ \A i \in 1..Len(v) : ClassOf(v[i]) # "Unknown"
        /\ \A i \in 1..(Len(v) + 1) : cls(i - 1) \in LegalPrevious(cls(i))

TokenStream(v) == IterCollect(TokenIter_new(v), <<>>)

SyntaxError == Err("CRON syntax error")

-----------------------------------------------------------------------------
\* C1: the token stream of a char sequence (the request, and the expression
\* respond tokenizes) starts with the synthetic Delim and ends with EOF exactly
\* when every char is accepted and every adjacent pair, the final (previous,
\* EOF) pair included, is in the adjacency table; otherwise the stream stops
\* without EOF and respond returns the syntax error.
C1_StreamEndsWithEOFIffLegal ==
    /\ pc = "expand" =>
          LET s == TokenStream(req)
          IN  s[1] = Delim /\ (s[Len(s)] = EOF <=> WellFormed(req))
    /\ pc = "precheck" =>
          LET s == TokenStream(mapstr)
          IN  s[1] = Delim /\ (s[Len(s)] = EOF <=> WellFormed(mapstr))
    /\ (Expanded /\ pc \in {"collect", "returned"}) =>
          /\ ~WellFormed(mapstr) => (ret = SyntaxError /\ ptr = <<>>)
          /\ WellFormed(mapstr) => ret # SyntaxError

\* A request of accepted chars with an illegal adjacency was rejected
C1_Witness ==
    /\ pc = "closed"
    /\ \A i \in DOMAIN req : ClassOf(req[i]) # "Unknown"
    /\ ~WellFormed(req)
    /\ ret = SyntaxError

-----------------------------------------------------------------------------
IsDelimChar(c) == c \in {" ", TAB, CR, LF, NUL}

\* The fields of an expression text: its maximal runs of chars that are no
\* delimiter
NumFields(v) ==
    Cardinality({i \in DOMAIN v : ~IsDelimChar(v[i]) /\ (i = 1 \/ IsDelimChar(v[i - 1]))})

\* The kinds in their fixed order, then End
KindOrder == <<"Minute", "Hour", "DayOfMonth", "Month", "DayOfWeek", "End">>

\* The parser has consumed the whole token vector
AtEndOfInput == ptr # <<>> /\ \A i \in DOMAIN ptr : ptr[i].cls \in {"Delim", "EOF"}

IncompleteError == Err("Incomplete CRON")

\* C2: the fields are consumed in the fixed order Minute, Hour, DayOfMonth,
\* Month, DayOfWeek (the fields before the current kind hold patterns, the
\* fields after it hold none); respond reaches rendering only with the kind
\* at End, a pattern in each of the five fields and exactly five fields in the
\* text; when the input ends before the fifth field is complete respond
\* returns "Incomplete CRON"; a text of fewer or more than five fields is
\* never rendered and is rejected.
C2_ExactlyFiveFieldsInOrder ==
    /\ \E n \in DOMAIN KindOrder :
          /\ state = KindOrder[n]
          /\ \A i \in 1..5 : i < n => PatsOf(KindOrder[i]) # <<>>
          /\ \A i \in 1..5 : i > n => PatsOf(KindOrder[i]) = <<>>
    /\ (pc \in {"run", "minhour", "day"} \/ Rendered) =>
          /\ state = "End"
          /\ \A k \in Elems(Kinds) : PatsOf(k) # <<>>
          /\ NumFields(mapstr) = 5
    /\ (Finished /\ AtEndOfInput /\ state # "End") => ret = IncompleteError
    /\ (Finished /\ Expanded /\ NumFields(mapstr) # 5) => ret.st = "Err"
    /\ (Finished /\ state = "End" /\ ~AtEndOfInput) => ret = Err("Bad CRON")
    /\ (Finished /\ ret = IncompleteError) => NumFields(mapstr) < 5

\* An expression of five fields, one of them holding two patterns, was rendered
C2_Witness ==
    /\ pc = "closed"
    /\ Rendered
    /\ NumFields(mapstr) = 5
    /\ \E k \in Elems(Kinds) : Len(PatsOf(k)) = 2

-----------------------------------------------------------------------------
\* The domain of each kind, as numbers
Domain(k) ==
    CASE k = "Minute" -> 0..59
      [] k = "Hour" -> 0..23
      [] k = "DayOfMonth" -> 1..23
      [] k = "Month" -> 1..12
      [] k = "DayOfWeek" -> 0..6

KindTag(k) ==
    CASE k = "Minute" -> "MINUTE"
      [] k = "Hour" -> "HOUR"
      [] k = "DayOfMonth" -> "DAY-OF-MONTH"
      [] k = "Month" -> "MONTH"
      [] k = "DayOfWeek" -> "DAY-OF-WEEK"

OutOfDomainError(k, n) == Err("Invalid " \o KindTag(k) \o " value " \o NumStr(n))

InvalidRangeError(n1, n2) ==
    Err("Range start (" \o NumStr(n1) \o ") cannot be bigger than or equal to end ("
        \o NumStr(n2) \o ")")

\* The number a stored value stands for: itself, or the number of the month or
\* day name
NumberOf(k, v) ==
    CASE k = "Month" -> CHOOSE n \in 1..12 : MonthNames[n] = v
      [] k = "DayOfWeek" -> CHOOSE n \in 0..6 : DayNames[n + 1] = v
      [] OTHER -> v

\* The values a stored value of a kind can be
ValuesOf(k) ==
    CASE k = "Month" -> Elems(MonthNames)
      [] k = "DayOfWeek" -> Elems(DayNames)
      [] OTHER -> Domain(k)

\* from_toks is about to be called for the field of kind state on the slice ptr
ParsingField == pc = "field" /\ state # "End"

\* What that call returns
FromToksResult == from_toks(state, PatsOf(state), ptr)

\* The text at ptr reads as "value terminator" (the At form) or as
\* "value - value" (the range form); Value1 and Value2 are the numbers read
Read1 == get_val(state, ptr)
Value1 == Read1.num
After1 == Read1.rest[1].cls
Read2 == get_val(state, SliceFrom(Read1.rest, 1))
Value2 == Read2.num
After2 == Read2.rest[1].cls

AtForm == ParsingField /\ ptr[1].cls # "Asterik" /\ Read1.st = "Ok" /\ After1 \in Terminators

RangeForm ==
    /\ ParsingField /\ ptr[1].cls # "Asterik"
    /\ Read1.st = "Ok" /\ After1 = "Dash" /\ Read2.st = "Ok"

\* The range form ends as a range does: on a terminator, or on a slash and a
\* step that parses
RangeEndsWell ==
    \/ After2 \in Terminators
    \/ After2 = "Slash" /\ get_num(SliceFrom(Read2.rest, 1)).st = "Ok"

\* The first value or bound of the pattern at ptr that is outside the domain
FirstOutside == IF Value1 \notin Domain(state) THEN Value1 ELSE Value2

StoredInDomain ==
    \A k \in Elems(Kinds) : \A i \in DOMAIN PatsOf(k) :
        LET pat == PatsOf(k)[i]
        IN  /\ pat.type = "At" =>
                  pat.v \in ValuesOf(k) /\ NumberOf(k, pat.v) \in Domain(k)
            /\ pat.type = "Range" =>
                  /\ pat.from \in ValuesOf(k) /\ NumberOf(k, pat.from) \in Domain(k)
                  /\ pat.to \in ValuesOf(k) /\ NumberOf(k, pat.to) \in Domain(k)

\* C3 as stated: every stored At value and Range bound lies in the field's
\* domain, and a value or bound outside the domain makes from_toks fail with
\* the field's out-of-domain error.
C3_OutOfDomainAlwaysReported ==
    /\ StoredInDomain
    /\ (AtForm /\ Value1 \notin Domain(state)) =>
          FromToksResult = OutOfDomainError(state, Value1)
    /\ (RangeForm /\ (Value1 \notin Domain(state) \/ Value2 \notin Domain(state))) =>
          FromToksResult = OutOfDomainError(state, FirstOutside)

\* C3, amended: every stored At value and Range bound lies in the field's
\* domain (minute 0..59, hour 0..23, day-of-month 1..23, month 1..12,
\* day-of-week 0..6); a value or bound outside the domain makes from_toks fail
\* and no pattern is accepted; the error is the field's out-of-domain error
\* for the first such value, unless the pattern is a range whose end is not
\* greater than its start or that does not end on a terminator or a step that
\* parses: those checks come first and give their own error.
C3_StoredValuesInDomain ==
    /\ StoredInDomain
    /\ (AtForm /\ Value1 \notin Domain(state)) =>
          FromToksResult = OutOfDomainError(state, Value1)
    /\ (RangeForm /\ (Value1 \notin Domain(state) \/ Value2 \notin Domain(state))) =>
          /\ FromToksResult.st = "Err"
          /\ (Value2 > Value1 /\ RangeEndsWell) =>
                FromToksResult = OutOfDomainError(state, FirstOutside)
          /\ Value2 <= Value1 => FromToksResult = InvalidRangeError(Value1, Value2)

\* The day-of-month value 24 was rejected with the DAY-OF-MONTH error and the
\* field holds no pattern
C3_Witness ==
    /\ pc = "closed"
    /\ state = "DayOfMonth"
    /\ ret = OutOfDomainError("DayOfMonth", 24)
    /\ dom = <<>>

-----------------------------------------------------------------------------
\* C4: every Range(from, to, step) stored in a field has to > from, compared
\* as the numbers read (the number of the name when a bound is a name); a
\* range text whose end is less than or equal to its start makes from_toks
\* fail with the invalid-range error that names both bounds, and no other
\* range text gives that error.
C4_RangeEndAboveStart ==
    /\ \A k \in Elems(Kinds) : \A i \in DOMAIN PatsOf(k) :
          LET pat == PatsOf(k)[i]
          IN  pat.type = "Range" => NumberOf(k, pat.to) > NumberOf(k, pat.from)
    /\ (RangeForm /\ Value2 <= Value1) =>
          FromToksResult = InvalidRangeError(Value1, Value2)
    /\ (RangeForm /\ Value2 > Value1) => FromToksResult # InvalidRangeError(Value1, Value2)

\* The range MAR-JAN of the month field, read as 3 and 1, was rejected with
\* the error naming 3 and 1
C4_Witness ==
    /\ pc = "closed"
    /\ state = "Month"
    /\ ptr[1].cls = "Alpha"
    /\ ret = InvalidRangeError(3, 1)
    /\ mon = <<>>

-----------------------------------------------------------------------------
\* A field holds a pattern other than Every(1)
Restricted(pats) ==
    \E i \in DOMAIN pats : ~(pats[i].type = "Every" /\ pats[i].step = 1)

dm == Restricted(dom) \/ Restricted(mon)
dw == Restricted(dow)

\* The day-of-month/month section: the compacted line, or the day-of-month
\* patterns then the month patterns
DomMonLines ==
    IF Len(dom) = 1 /\ Len(mon) = 1 /\ dom[1].type = "At" /\ mon[1].type = "At"
    THEN <<"on " \o mon[1].v \o " " \o NumStr02(dom[1].v) \o LF>>
    ELSE print("DayOfMonth", dom) \o print("Month", mon)

ExpectedDayLines ==
    CASE dm /\ dw   -> DomMonLines \o <<AndLine>> \o print("DayOfWeek", dow)
      [] dm /\ ~dw  -> DomMonLines
      [] ~dm /\ dw  -> print("DayOfMonth", dom) \o print("DayOfWeek", dow)
      [] ~dm /\ ~dw -> print("Month", mon)

\* What follows "Run" and the minute/hour section in the output of respond
DayLinesWritten ==
    LET n == 1 + Len(MinHourSection)
        m == IF pc = "closed" THEN Len(out) - 1 ELSE Len(out)
    IN  SubSeq(out, n + 1, m)

\* C5: after a successful parse the day section written by respond is, with
\* dm = (day-of-month or month holds a pattern other than Every(1)) and dw =
\* (day-of-week holds one): dm and dw -> the day-of-month/month section, the
\* line "and", the day-of-week patterns; dm only -> the day-of-month/month
\* section; dw only -> the day-of-month patterns then the day-of-week
\* patterns; neither -> the month patterns.  "and" is written exactly when dm
\* and dw, once, after every day-of-month/month line and before every
\* day-of-week line.
C5_DaySection ==
    Rendered =>
        /\ DayLinesWritten = ExpectedDayLines
        /\ (AndLine \in Lines) <=> (dm /\ dw)
        /\ (dm /\ dw) =>
              \E i \in DOMAIN DayLinesWritten :
                  /\ DayLinesWritten[i] = AndLine
                  /\ SubSeq(DayLinesWritten, 1, i - 1) = DomMonLines
                  /\ SubSeq(DayLinesWritten, i + 1, Len(DayLinesWritten))
                        = print("DayOfWeek", dow)
                  /\ \A j \in DOMAIN out : out[j] = AndLine => j = i + 1 + Len(MinHourSection)

\* An expression restricting day-of-month and day-of-week, with two
\* day-of-month patterns, was rendered with "and" between the two sections
C5_Witness ==
    /\ pc = "closed"
    /\ Rendered
    /\ dm /\ dw
    /\ Len(dom) = 2
    /\ print("DayOfWeek", dow) # <<>>
    /\ AndLine \in Lines

-----------------------------------------------------------------------------
\* C6: "Run" is written only after tokenization and all five field parses
\* have succeeded, and as the first write; a request that respond rejects has
\* no "Run" line at any point, e.g. "5 4 3-1 * *", which fails with the
\* invalid-range error.
C6_RunOnlyAfterParse ==
    /\ RunLine \in Lines =>
          /\ out[1] = RunLine
          /\ pc \in {"minhour", "day", "returned", "closed"}
          /\ WellFormed(mapstr)
          /\ state = "End"
          /\ \A k \in Elems(Kinds) : PatsOf(k) # <<>>
          /\ ret.st # "Err"
    /\ ret.st = "Err" => RunLine \notin Lines
    /\ (Finished /\ req = Chars("5 4 3-1 * *")) =>
          /\ ret = InvalidRangeError(3, 1)
          /\ RunLine \notin Lines

\* "5 4 3-1 * *" was rejected after two fields were parsed, and the client
\* got the error text only
C6_Witness ==
    /\ pc = "closed"
    /\ req = Chars("5 4 3-1 * *")
    /\ min # <<>> /\ hrs # <<>>
    /\ ret = InvalidRangeError(3, 1)
    /\ out = <<ret.err>>

-----------------------------------------------------------------------------
\* C7: on every failing request respond writes nothing before it returns the
\* error, so the client receives the display text of the error and nothing
\* else.
C7_OnlyTheErrorText ==
    ret.st = "Err" =>
        /\ pc = "returned" => out = <<>>
        /\ pc = "closed" => out = <<ret.err>>

-----------------------------------------------------------------------------
\* The first line of the request is the shorthand, or the request is the raw
\* expression (alone, or followed by the line terminator and padding)
FirstLineIs(line) == FirstLine(req) = Some(line)

RawIs(text) == req = Chars(text) \/ req = Chars(text) \o Padding

SameRequest(short, raw) == FirstLineIs(short) \/ RawIs(raw)

\* What the client has received when the connection is closed, the banner
\* of main left out
Received == SubSeq(out, 1, Len(out) - 1)

\* C8: a request whose first line is a shorthand gives the output of its
\* expansion given as a raw expression: @yearly and @annually as
\* "0 0 1 1 *" ("Run", "at 00:00", "on JAN 01"), @monthly as "0 0 1 * *",
\* @weekly as "0 0 * * 0", @daily as "0 0 * * *", @hourly as "0 * * * *";
\* @reboot writes "Run after reboot" and returns Ok with nothing tokenized or
\* parsed.
C8_ShorthandAsExpansion ==
    Finished =>
    /\ FirstLine(req).val \in {"@yearly", "@annually", "@monthly", "@weekly", "@daily",
                                "@hourly", "@reboot"} => ret.st = "Ok"
    /\ (pc = "closed" /\ (SameRequest("@yearly", "0 0 1 1 *") \/ FirstLineIs("@annually"))) =>
          /\ ret.st = "Ok"
          /\ Received = <<RunLine, "at 00:00" \o LF, "on JAN 01" \o LF>>
    /\ (pc = "closed" /\ SameRequest("@monthly", "0 0 1 * *")) =>
          /\ ret.st = "Ok"
          /\ Received = <<RunLine, "at 00:00" \o LF, "on day-of-month 01" \o LF>>
    /\ (pc = "closed" /\ SameRequest("@weekly", "0 0 * * 0")) =>
          /\ ret.st = "Ok"
          /\ Received = <<RunLine, "at 00:00" \o LF, "on SUN" \o LF>>
    /\ (pc = "closed" /\ SameRequest("@daily", "0 0 * * *")) =>
          /\ ret.st = "Ok"
          /\ Received = <<RunLine, "at 00:00" \o LF>>
    /\ (pc = "closed" /\ SameRequest("@hourly", "0 * * * *")) =>
          /\ ret.st = "Ok"
          /\ Received = <<RunLine, "at minute 00" \o LF, "past every hour" \o LF>>
    /\ FirstLineIs("@reboot") =>
          /\ ret.st = "Ok"
          /\ out[1] = "Run after reboot"
          /\ pc = "closed" => Received = <<"Run after reboot">>
          /\ mapstr = <<>> /\ ptr = <<>>
          /\ \A k \in Elems(Kinds) : PatsOf(k) = <<>>

\* @weekly, followed by the line terminator, was answered as "0 0 * * 0" is
C8_Witness ==
    /\ pc = "closed"
    /\ req = Chars("@weekly") \o Padding
    /\ mapstr = Chars("0 0 * * 0")
    /\ Received = <<RunLine, "at 00:00" \o LF, "on SUN" \o LF>>

-----------------------------------------------------------------------------
\* The suffix by the remainder of the step modulo 20 (remainder 1 has none)
OrdinalOfRemainder(r) == IF r = 2 THEN "nd" ELSE IF r = 3 THEN "rd" ELSE "th"

\* The fixed every-unit phrase of each kind
EveryUnitPhrase(k) ==
    CASE k = "Minute" -> "at every minute"
      [] k = "Hour" -> "past every hour"
      [] OTHER -> ""

\* The rendering of an Every or Range pattern, by the remainder of its step
ExpectedStepLines(k, pat) ==
    LET r == pat.step % 20
        nth == NumStr(pat.step) \o OrdinalOfRemainder(r) \o " "
        span == " from " \o Disp(k, pat.from) \o " to " \o Disp(k, pat.to)
    IN  CASE pat.type = "Every" /\ r = 1 ->
                IF EveryUnitPhrase(k) = "" THEN <<>> ELSE <<EveryUnitPhrase(k) \o LF>>
          [] pat.type = "Every" /\ r # 1 ->
                <<atword(k) \o " every " \o nth \o typestr(k) \o LF>>
          [] pat.type = "Range" /\ r = 1 ->
                <<atword(k) \o " every " \o typestr(k) \o span \o LF>>
          [] pat.type = "Range" /\ r # 1 ->
                <<atword(k) \o " every " \o nth \o typestr(k) \o span \o LF>>

\* C9: the form of the rendering of Every(step) and Range(from, to, step)
\* is decided by step mod 20: remainder 1 gives the kind's every-unit phrase
\* (nothing when it is empty) for Every and no step clause for Range,
\* remainder 2 the suffix "nd", remainder 3 "rd", any other "th"; Every(1) is
\* never rendered as "every 1th"; "*/15" in the minute field renders
\* "at every 15th minute".
C9_SuffixByStepMod20 ==
    Finished =>
    /\ \A k \in Elems(Kinds) : \A i \in DOMAIN PatsOf(k) :
          LET pat == PatsOf(k)[i]
          IN  /\ pat.type \in {"Every", "Range"} =>
                    print_pat(k, pat) = ExpectedStepLines(k, pat)
              /\ pat = PEvery(1) =>
                    print_pat(k, pat) \in {<<>>, <<EveryUnitPhrase(k) \o LF>>}
    /\ (pc = "closed" /\ RawIs("*/15 * * * *")) =>
          Received = <<RunLine, "at every 15th minute" \o LF, "past every hour" \o LF>>
    /\ (Rendered /\ Len(min) = 1 /\ min[1].type = "Every") =>
          out[2] = IF min[1].step % 20 = 1 THEN "at every minute" \o LF
                   ELSE "at every " \o NumStr(min[1].step)
                        \o OrdinalOfRemainder(min[1].step % 20) \o " minute" \o LF

\* "*/12" in the minute field was rendered with the suffix of remainder 12
C9_Witness ==
    /\ pc = "closed"
    /\ Rendered
    /\ min = <<PEvery(12)>>
    /\ out[2] = "at every 12th minute" \o LF

-----------------------------------------------------------------------------
\* The lines of the patterns of a field, pattern 1 to pattern n in that order
RECURSIVE LinesInOrder(_, _, _)
LinesInOrder(k, pats, n) ==
    IF n = 0 THEN <<>> ELSE LinesInOrder(k, pats, n - 1) \o print_pat(k, pats[n])

\* Every line of the form "at HH:MM"
CompactLines ==
    {"at " \o NumStr02(h) \o ":" \o NumStr02(m) \o LF : h \in 0..23, m \in 0..59}

BothSingleAt == Len(min) = 1 /\ Len(hrs) = 1 /\ min[1].type = "At" /\ hrs[1].type = "At"

ExpectedMinHourLines ==
    IF BothSingleAt
    THEN <<"at " \o NumStr02(hrs[1].v) \o ":" \o NumStr02(min[1].v) \o LF>>
    ELSE LinesInOrder("Minute", min, Len(min)) \o LinesInOrder("Hour", hrs, Len(hrs))

\* C10: after a successful parse the minute/hour section is the single line
\* "at HH:MM" exactly when the minute field and the hour field each hold one
\* pattern and both are At; otherwise it is the lines of the minute patterns
\* and then those of the hour patterns, each field's in the order of its
\* patterns.
C10_MinuteHourSection ==
    (pc = "day" \/ Rendered) =>
        /\ pc = "day" => out = <<RunLine>> \o ExpectedMinHourLines
        /\ SubSeq(out, 1, 1 + Len(ExpectedMinHourLines)) = <<RunLine>> \o ExpectedMinHourLines
        /\ (Lines \cap CompactLines # {}) <=> BothSingleAt
        /\ BothSingleAt => out[2] \in CompactLines

\* Two minute patterns and one hour value: two minute lines, then the hour
C10_Witness ==
    /\ pc = "closed"
    /\ Rendered
    /\ Len(min) = 2 /\ min[1].type = "At" /\ min[2].type = "At"
    /\ Len(hrs) = 1 /\ hrs[1].type = "At"
    /\ SubSeq(out, 2, 4) = <<"at minute " \o NumStr02(min[1].v) \o LF,
                             "at minute " \o NumStr02(min[2].v) \o LF,
                             "past hour " \o NumStr02(hrs[1].v) \o LF>>

-----------------------------------------------------------------------------
\* The Num tokens of the decimal digits of a number
NumToks(n) == LET cs == Chars(NumStr(n)) IN [i \in DOMAIN cs |-> Num(cs[i])]

\* The length of the run of Alpha tokens a slice starts with
AlphaRun(s) == IF PositionNot(s, "Alpha") < 0 THEN Len(s) ELSE PositionNot(s, "Alpha")

\* The name a slice starts with, as written and folded to upper case
WrittenName(s) == Concat(CharsOf(s, AlphaRun(s)))
FoldedName(s) == Concat([i \in 1..AlphaRun(s) |-> to_ascii_uppercase(s[i].c)])

\* A slice with every month or day name replaced by the digits of its number
RECURSIVE AsNumbers(_, _)
AsNumbers(k, s) ==
    IF s = <<>> THEN <<>>
    ELSE IF s[1].cls # "Alpha" THEN <<s[1]>> \o AsNumbers(k, Tail(s))
    ELSE LET n == AlphaRun(s)
             name == FoldedName(s)
         IN  (IF name \in ValuesOf(k) THEN NumToks(NumberOf(k, name)) ELSE SubSeq(s, 1, n))
             \o AsNumbers(k, SliceFrom(s, n))

\* A slice with every letter in upper case
UpperCased(s) ==
    [i \in DOMAIN s |-> IF s[i].cls = "Alpha" THEN Alpha(to_ascii_uppercase(s[i].c)) ELSE s[i]]

\* from_toks is about to read a pattern of the month or day-of-week field
ParsingNamedField == ParsingField /\ IsNamed(state)

\* The pattern at ptr starts with a month or day name in any case
StartsWithName ==
    ParsingNamedField /\ ptr[1].cls = "Alpha" /\ FoldedName(ptr) \in ValuesOf(state)

\* Two results of from_toks agree: the same error, or the same pattern list
SameOutcome(r1, r2) ==
    /\ r1.st = r2.st
    /\ r1.st = "Ok" => r1.pats = r2.pats
    /\ r1.st # "Ok" => r1 = r2

\* Numbers and names are both accepted, names in any case, and a name gives
\* what its number gives
NamesAsNumbers ==
    /\ ParsingNamedField =>
          /\ SameOutcome(FromToksResult,
                         from_toks(state, PatsOf(state), AsNumbers(state, ptr)))
          /\ SameOutcome(FromToksResult,
                         from_toks(state, PatsOf(state), UpperCased(ptr)))
    /\ StartsWithName =>
          /\ Read1.st = "Ok"
          /\ Value1 = NumberOf(state, FoldedName(ptr))
          /\ Value1 \in Domain(state)
          /\ After1 \in Terminators =>
                FromToksResult.pats = Append(PatsOf(state), PAt(FoldedName(ptr)))
    /\ (AtForm /\ IsNamed(state) /\ Value1 \in Domain(state)) =>
          /\ FromToksResult.st = "Ok"
          /\ NumberOf(state, FromToksResult.pats[Len(FromToksResult.pats)].v) = Value1

\* C11 as stated: month and day-of-week accept the numeric form and the
\* 3-letter name in any case, a name and its number give the same stored
\* pattern, and alpha_to_num applied to a name as it is written, "jan" as well
\* as "JAN", gives the number of the name.
C11_AlphaToNumAnyCase ==
    /\ NamesAsNumbers
    /\ StartsWithName =>
          alpha_to_num(state, WrittenName(ptr)) = Ok(NumberOf(state, FoldedName(ptr)))

\* C11, amended: month and day-of-week accept the numeric form (1..12, 0..6)
\* and the 3-letter name in any case, and a name and its number give the same
\* stored pattern (or the same error); the case folding is done by get_val,
\* which hands the name in upper case to alpha_to_num: get_val of "jan" and of
\* "JAN" both give 1, while alpha_to_num itself knows the upper-case names only.
C11_NamesFoldedByGetVal ==
    /\ NamesAsNumbers
    /\ StartsWithName =>
          /\ alpha_to_num(state, FoldedName(ptr)) = Ok(NumberOf(state, FoldedName(ptr)))
          /\ get_val(state, UpperCased(ptr)).num = Value1
          /\ WrittenName(ptr) # FoldedName(ptr) =>
                alpha_to_num(state, WrittenName(ptr)).st = "Err"

\* The month given as "jan" was stored as JAN and rendered
C11_Witness ==
    /\ pc = "closed"
    /\ Rendered
    /\ mapstr = Chars("* * * jan *")
    /\ mon = <<PAt("JAN")>>
    /\ "in JAN" \o LF \in Lines

-----------------------------------------------------------------------------
\* C12: the outcome of respond (its result and everything written on the
\* connection) is decided by the first line of the request: a connection
\* whose request has the first line of an earlier connection's request gets
\* the same result and the same output, whatever follows the first line
\* terminator.
C12_FirstLineDecidesOutcome ==
    \A i \in DOMAIN prior :
        (pc = "closed" /\ ret # Running /\ prior[i].called
            /\ prior[i].line = FirstLine(req)) =>
                /\ prior[i].ret = ret
                /\ prior[i].out = out

-----------------------------------------------------------------------------
\* C18: respond is called only when the bytes read on the connection contain
\* a line terminator, however the client splits or delays its data.
C18_RespondAfterCompleteLine ==
    pc = "expand" => \E i \in DOMAIN req : req[i] = LF

-----------------------------------------------------------------------------
\* The loop of respond ended with all five fields parsed and the input consumed
ParseSucceeded == Expanded /\ state = "End" /\ AtEndOfInput

\* The complete text of a translation
CompleteText == <<RunLine>> \o ExpectedMinHourLines \o ExpectedDayLines

\* C13: once the tokenizer and the field parser have accepted the five
\* fields, rendering does not fail: while the text is being written respond
\* has not returned, and when it returns the result is Ok and the output is
\* the complete text ("Run", the minute/hour section, the day section; then
\* the banner of main).  A request that is rejected is rejected by the
\* tokenizer or the parser: the error is the syntax error, or the parser
\* stopped before the end of the input or before the kind End.
C13_RenderingNeverFails ==
    /\ pc \in {"run", "minhour", "day"} =>
          /\ ParseSucceeded
          /\ ret = Running
          /\ out = SubSeq(CompleteText, 1, Len(out))
    /\ (Finished /\ ParseSucceeded) =>
          /\ ret = Ok("unit")
          /\ pc = "returned" => out = CompleteText
          /\ pc = "closed" => out = CompleteText \o <<Banner>>
    /\ (Finished /\ ret.st # "Ok") =>
          /\ RunLine \notin Lines
          /\ ret = SyntaxError \/ ~ParseSucceeded

\* "59 23 23 dec sat" was parsed and rendered in full
C13_Witness ==
    /\ pc = "closed"
    /\ mapstr = Chars("59 23 23 dec sat")
    /\ ParseSucceeded
    /\ ret = Ok("unit")
    /\ out = <<RunLine, "at 23:59" \o LF, "on DEC 23" \o LF, AndLine, "on SAT" \o LF, Banner>>

-----------------------------------------------------------------------------
NumberParseError == Err("Error parsing a number")

\* The run of Num tokens a slice starts with, and whether it is a number too
\* large for a usize
DigitRun(s) == CharsOf(s, IF PositionNot(s, "Num") < 0 THEN Len(s) ELSE PositionNot(s, "Num"))

Overflows(s) == s # <<>> /\ s[1].cls = "Num" /\ ~FitsUsize(DigitRun(s))

\* The pattern at ptr is a value or a range (not the asterisk form)
ValueForm == ParsingField /\ ptr[1].cls # "Asterik"

\* The digits read by get_val as the value or range start, by get_val as the
\* range end, and by get_num as the step of a range and as the step of "*/N"
StartOverflows == ValueForm /\ Overflows(ptr)

EndOverflows == RangeForm /\ Overflows(SliceFrom(Read1.rest, 1))

RangeStepOverflows ==
    /\ RangeForm /\ Value2 > Value1 /\ After2 = "Slash"
    /\ Overflows(SliceFrom(Read2.rest, 1))

EveryStepOverflows ==
    /\ ParsingField /\ ptr[1].cls = "Asterik" /\ ptr[2].cls = "Slash"
    /\ Overflows(SliceFrom(ptr, 2))

\* C14: a run of digits that does not fit a usize makes parsing fail with the
\* number-parse error, whether it is read through get_val (a value, a range
\* start, a range end) or through get_num (a step).
C14_OverflowIsNumberParseError ==
    /\ StartOverflows => FromToksResult = NumberParseError
    /\ (ValueForm /\ Read1.st = "Ok" /\ After1 = "Dash"
          /\ Overflows(SliceFrom(Read1.rest, 1))) => FromToksResult = NumberParseError
    /\ RangeStepOverflows => FromToksResult = NumberParseError
    /\ EveryStepOverflows => FromToksResult = NumberParseError

-----------------------------------------------------------------------------
IllegalCharAfterAsterisk == Err("Illegal char after *")

\* The classes of the tokens that end a pattern
EndsPattern == {"EOF", "Delim", "Comma"}

\* The pattern at ptr starts with an asterisk
AsteriskForm == ParsingField /\ ptr[1].cls = "Asterik"

\* What follows "*/"
AfterSlash == SliceFrom(ptr, 2)

\* "*/" is followed by a run of digits; the run is a number that fits a usize
StepIsNumericRun == AfterSlash # <<>> /\ AfterSlash[1].cls = "Num"
StepFits == StepIsNumericRun /\ FitsUsize(DigitRun(AfterSlash))

\* The pattern pushed by a successful from_toks
Pushed == FromToksResult.pats[Len(FromToksResult.pats)]

\* "*" and a terminator is Every(1); "*/N" with a number N that fits is Every(N)
AsteriskAccepted ==
    /\ (AsteriskForm /\ ptr[2].cls \in EndsPattern) =>
          /\ FromToksResult.st = "Ok"
          /\ FromToksResult.pats = Append(PatsOf(state), PEvery(1))
          /\ FromToksResult.rest = SliceFrom(ptr, 1)
    /\ (AsteriskForm /\ ptr[2].cls = "Slash" /\ StepFits) =>
          /\ FromToksResult.st = "Ok"
          /\ FromToksResult.pats = Append(PatsOf(state), Pushed)
          /\ Pushed = PEvery(DigitsValue(StripZeros(DigitRun(AfterSlash))))
          /\ NumToks(Pushed.step) = SubSeq(AfterSlash, 1 + Len(DigitRun(AfterSlash))
                                              - Len(NumToks(Pushed.step)),
                                           Len(DigitRun(AfterSlash)))

\* C15 as stated: "*" followed by EOF, Delim or Comma gives Every(1), "*/N"
\* with a numeric run N gives Every(N), and an asterisk followed by anything
\* else, "*/" without a numeric run included, fails with the
\* illegal-char-after-asterisk error.
C15_ElseIllegalCharAfterAsterisk ==
    /\ AsteriskAccepted
    /\ (AsteriskForm /\ ptr[2].cls = "Slash" /\ StepIsNumericRun) => FromToksResult.st = "Ok"
    /\ (AsteriskForm /\ ptr[2].cls \notin EndsPattern
          /\ ~(ptr[2].cls = "Slash" /\ StepIsNumericRun)) =>
                FromToksResult = IllegalCharAfterAsterisk

\* C15, amended: "*" followed by EOF, Delim or Comma gives Every(1); "*/N"
\* with a numeric run N that fits a usize gives Every(N); "*/" followed by
\* anything else (no digits, or a number that does not fit) fails with the
\* number-parse error; the illegal-char-after-asterisk error is what from_toks
\* gives when the token after the asterisk is neither a terminator nor a
\* slash, and no token stream that passes the tokenizer has such a token.
C15_SlashWithoutNumberIsParseError ==
    /\ AsteriskAccepted
    /\ (AsteriskForm /\ ptr[2].cls = "Slash" /\ ~StepFits) =>
          FromToksResult = NumberParseError
    /\ AsteriskForm =>
          /\ ptr[2].cls \in EndsPattern \cup {"Slash"}
          /\ FromToksResult # IllegalCharAfterAsterisk
    /\ (ParsingField /\ ptr[1].cls \notin EndsPattern \cup {"Slash"}) =>
          from_toks(state, PatsOf(state), <<Asterik>> \o ptr) = IllegalCharAfterAsterisk

\* "*/a" in the minute field was rejected with the number-parse error
C15_Witness ==
    /\ pc = "closed"
    /\ mapstr = Chars("*/a * * * *")
    /\ state = "Minute" /\ min = <<>>
    /\ ptr[1] = Asterik /\ ptr[2] = Slash /\ ptr[3] = Alpha("a")
    /\ ret = NumberParseError

-----------------------------------------------------------------------------
\* The place of a kind in the order of the fields; End is 6
KindIndex(k) == CHOOSE n \in DOMAIN KindOrder : KindOrder[n] = k

\* list2 is list1 with one pattern added at its end
OneAppended(list1, list2) ==
    Len(list2) = Len(list1) + 1 /\ SubSeq(list2, 1, Len(list1)) = list1

\* seq2 is seq1 without some of its first elements
ProperSuffix(seq1, seq2) ==
    Len(seq2) < Len(seq1) /\ seq2 = SubSeq(seq1, Len(seq1) - Len(seq2) + 1, Len(seq1))

\* One step of respond, as a call of from_toks for the field of kind state: it
\* succeeds and appends one pattern to that field's list, the slice moving
\* forward in the text, or it fails and changes no list
FromToksStep ==
    \/ /\ ret' = Running
       /\ OneAppended(fields[KindIndex(state)], fields'[KindIndex(state)])
       /\ fields'[KindIndex(state)] = FromToksResult.pats
       /\ ProperSuffix(ptr, ptr')
    \/ /\ ret'.st = "Err"
       /\ ret' = FromToksResult
       /\ fields' = fields

\* C16: every call of from_toks for the field of kind K either succeeds and
\* appends exactly one pattern at the end of K's list, or fails and leaves it
\* unchanged; the lists of the other four fields are unchanged by the call; no
\* other step changes a list, so a field's list stays as it is once the parser
\* is past kind K; patterns are appended as the slice moves forward through
\* the text, that is in left-to-right order.
C16_OnePatternPerCall ==
    [][/\ ParsingField => FromToksStep
       /\ \A i \in 1..5 :
             /\ (~ParsingField \/ i # KindIndex(state)) => fields'[i] = fields[i]
             /\ i < KindIndex(state) => fields'[i] = fields[i]]_vars

\* "1,2" of the minute field is stored as At(1), At(2) and the parser is at
\* the hour field
C16_Witness ==
    /\ pc = "field"
    /\ state = "Hour"
    /\ min = <<PAt(1), PAt(2)>>
    /\ hrs = <<>>

-----------------------------------------------------------------------------
\* The text of an error starts with a given text
StartsWith(text, start) ==
    Len(text) >= Len(start) /\ SubSeq(text, 1, Len(start)) = start

\* The start of the out-of-domain and invalid-name errors of a kind
ValueErrorStart(k) == "Invalid " \o KindTag(k) \o " value "

\* An error is an out-of-domain or invalid-name error, of whatever kind
IsValueError(r) ==
    r.st = "Err" /\ \E k \in Elems(Kinds) : StartsWith(r.err, ValueErrorStart(k))

\* A text is a name of the name table of a kind (minute, hour and day-of-month
\* have no names)
KnownName(k, name) == IsNamed(k) /\ name \in ValuesOf(k)

\* C17: an out-of-domain or invalid-name error raised by from_toks for the
\* field of kind K carries the tag of K: MINUTE in the minute field, HOUR in
\* the hour field, DAY-OF-MONTH, MONTH and DAY-OF-WEEK in theirs; an unknown
\* name in the field of kind K is reported as "Invalid <tag of K> value <name>".
C17_ErrorCarriesKindTag ==
    /\ (ParsingField /\ IsValueError(FromToksResult)) =>
          StartsWith(FromToksResult.err, ValueErrorStart(state))
    /\ (ValueForm /\ ptr[1].cls = "Alpha" /\ ~KnownName(state, FoldedName(ptr))) =>
          FromToksResult = Err(ValueErrorStart(state) \o FoldedName(ptr))

-----------------------------------------------------------------------------
\* A slice holds a token that is not of the class: the search of get_num and
\* get_val for the end of a run finds one
RunEnds(s, cls) == PositionNot(s, cls) >= 0

\* The pre-check has passed: the stream of the expression ends with EOF
PassedPrecheck == pc \notin {"expand", "precheck", "read"} /\ mapstr # <<>> /\ ret # SyntaxError

\* Every index and slice of one call of from_toks on ptr is inside the slice,
\* and every search finds its token
FromToksInBounds ==
    /\ Len(ptr) >= 1                                         \* s[0]
    /\ ptr[1].cls = "Asterik" =>
          /\ Len(ptr) >= 2                                   \* s[1]
          /\ ptr[2].cls = "Slash" =>
                /\ Len(ptr) >= 3                             \* &s[2..]
                /\ RunEnds(SliceFrom(ptr, 2), "Num")
    /\ ptr[1].cls # "Asterik" =>
          /\ RunEnds(ptr, "Num") /\ RunEnds(ptr, "Alpha")
          /\ Read1.st = "Ok" =>
                /\ Len(Read1.rest) >= 1                      \* ret[0]
                /\ After1 = "Dash" =>
                      /\ Len(Read1.rest) >= 2                \* &ret[1..]
                      /\ RunEnds(SliceFrom(Read1.rest, 1), "Num")
                      /\ RunEnds(SliceFrom(Read1.rest, 1), "Alpha")
                      /\ (Read2.st = "Ok" /\ Value2 > Value1) =>
                            /\ Len(Read2.rest) >= 1          \* ret2[0]
                            /\ After2 = "Slash" =>
                                  /\ Len(Read2.rest) >= 2    \* &ret2[1..]
                                  /\ RunEnds(SliceFrom(Read2.rest, 1), "Num")
    /\ FromToksResult.st # "Panic"
    /\ FromToksResult.st = "Ok" => Len(FromToksResult.rest) >= 1   \* ptr[0] at line 555

\* C19: for every input respond never panics: tokiter.last() is Some (the
\* stream always starts with the synthetic Delim), and once the pre-check has
\* passed the token vector ends with EOF, the slice respond indexes at [0] is
\* never empty, the inner loop over delimiters ends at a token, and every
\* index, slice and search of from_toks, get_val and get_num stays inside the
\* slice.
C19_NoPanicAfterPrecheck ==
    /\ ret.st # "Panic"
    /\ pc = "precheck" => IterLast(TokenIter_new(mapstr), None).some
    /\ (PassedPrecheck /\ pc # "collect") =>
          /\ Len(ptr) >= 1
          /\ ptr[Len(ptr)] = EOF
    /\ pc = "boundary" => (ptr[1].cls = "Delim" => SkipDelims(ptr).st # "Panic")
    /\ ParsingField => FromToksInBounds

\* "1-5/2" of the day-of-month field went through get_val twice and get_num
\* once, and the expression was rendered
C19_Witness ==
    /\ pc = "closed"
    /\ mapstr = Chars("5 4 1-5/2 * *")
    /\ dom = <<PRange(1, 5, 2)>>
    /\ ret = Ok("unit")

-----------------------------------------------------------------------------
\* C20: whenever the line "and" is written, at least one day-of-month or
\* month line was written between the minute/hour section and it: "and" is
\* never the first line of the day section.
C20_AndHasLeftSide ==
    (Rendered /\ AndLine \in Lines) =>
        /\ DayLinesWritten # <<>>
        /\ DayLinesWritten[1] # AndLine


\* Every pattern of a list is an Every whose step has the remainder 1 modulo
\* 20: the day-of-month, month and day-of-week fields render nothing for it
Silent(pats) == \A i \in DOMAIN pats : pats[i].type = "Every" /\ pats[i].step % 20 = 1

\* C20, amended: whenever the line "and" is written, the day-of-month and
\* month lines come between the minute/hour section and it, and there is at
\* least one such line unless every pattern of the day-of-month and of the
\* month field is an Every whose step has the remainder 1 modulo 20 (one of
\* them other than Every(1), such as */21): these render nothing, and "and"
\* then follows the minute/hour section directly.
C20_AndAfterDayOfMonthLines ==
    (Rendered /\ AndLine \in Lines) =>
        /\ DayLinesWritten # <<>>
        /\ \E i \in DOMAIN DayLinesWritten :
              /\ DayLinesWritten[i] = AndLine
              /\ SubSeq(DayLinesWritten, 1, i - 1) = DomMonLines
        /\ DayLinesWritten[1] = AndLine <=> (Silent(dom) /\ Silent(mon))
        /\ DayLinesWritten[1] = AndLine =>
              \E i \in DOMAIN (dom \o mon) :
                  (dom \o mon)[i].step # 1 /\ (dom \o mon)[i].step % 20 = 1

\* "* * */21 * mon" was rendered with "and" right after the hour line
C20_Witness ==
    /\ pc = "closed"
    /\ mapstr = Chars("* * */21 * mon")
    /\ dom = <<PEvery(21)>>
    /\ out = <<RunLine, "at every minute" \o LF, "past every hour" \o LF,
               AndLine, "on MON" \o LF, Banner>>

=============================================================================
